---- MODULE Spec2Model ----
(***************************************************************************)
(* Model of main.py: the backup pipeline that archives repositories,      *)
(* uploads them to a Drive "code" folder, mirrors a Drive "doc" folder     *)
(* tree into a local directory, zips it, uploads the zip to S3 and cleans  *)
(* the working directory.                                                  *)
(*                                                                         *)
(* Strings that the code compares, sorts or concatenates (entry names,     *)
(* file names, the project name) are sequences of code points, so that     *)
(* sorted(), str.endswith and + are computed as Python computes them.      *)
(* A path is the sequence of its components below the working directory;   *)
(* names hold no '/'.  Mime types are only compared for equality and are   *)
(* kept as string literals.                                                *)
(***************************************************************************)
EXTENDS Integers, Sequences, FiniteSets, TLC

VARIABLES
    pc,          \* position of the driver: "connect", "sync", "crashed", ...
    exitStatus,  \* process exit status, -1 while the process runs
    remote,      \* the Drive doc folder tree: entries, number of bulk files
    fs,          \* local file system below the working directory: path -> node
    stack,       \* activation records of download_folder_from_drive
    dl,          \* the chunked download in progress (downloader + fh)
    run,         \* 1 for the first synchronization pass, 2 for a second one
    mode,        \* how the second pass started: "fresh" or "resume"
    tree1,       \* the local tree left by the completed first pass
    downloads,   \* calls of download_file/download_gdoc in the current pass
    requests,    \* the export_media requests built so far
    lastVisit,   \* what the loop body did with the item it handled last
    visited,     \* ids of the entries the loop body handled in the current pass
    failedAt,    \* the step at which the process died, "" if it did not
    creds,       \* the credentials token.pickle holds, none without the file
    repos,       \* the repository descriptors read from repos.json
    idx,         \* position of the for loop over repos
    path,        \* the path create_zip_file_from_repo returned last
    code,        \* the Drive code folder: entries from before the run, uploads
    now,         \* datetime.datetime.now(), in seconds
    log,         \* the archives produced and the uploads started, in order
    s3,          \* what s3.upload_file did and what upload_file_to_s3 returned
    bucket,      \* keys of the objects in the S3 bucket
    todo,        \* entries of os.listdir(".") the cleanup loop has yet to see
    fs0          \* the working directory when cleanup started

syncVars == <<remote, stack, dl, run, mode, tree1, downloads, requests,
              lastVisit, visited>>

driverVars == <<creds, repos, idx, path, code, now, log, s3, bucket, todo,
                fs0>>

vars == <<pc, exitStatus, failedAt, fs, syncVars, driverVars>>

-----------------------------------------------------------------------------
(* Bounds of the model *)

\* largest number of entries of a generated remote tree
MaxEntries == 3

\* chunks of a file of a generated remote tree
NChunks == 2

\* longest listing whose every order is explored
MaxPerm == 3

\* largest number of repository descriptors
MaxRepos == 2

\* seconds the clock may advance during a run
MaxTick == 2

-----------------------------------------------------------------------------
(* Program constants *)

\* pageSize='1000' of the listing call of download_folder_from_drive
PageSize == 1000

\* the listing call of clear_folder names no pageSize: files.list of Drive
\* v3 then returns pages of 100 entries
DefaultPageSize == 100

-----------------------------------------------------------------------------
(* Strings *)

Min(a, b) == IF a < b THEN a ELSE b

\* the sequence f[1], ..., f[n] as a tuple
Materialize(f, n) == SubSeq(f, 1, n)

\* Python's str < str: lexicographic on code points
RECURSIVE StrLess(_, _)
StrLess(s, t) ==
    IF t = <<>> THEN FALSE
    ELSE IF s = <<>> THEN TRUE
    ELSE IF s[1] # t[1] THEN s[1] < t[1]
    ELSE StrLess(Tail(s), Tail(t))

\* str.endswith
EndsWith(s, suffix) ==
    /\ Len(suffix) <= Len(s)
    /\ SubSeq(s, Len(s) - Len(suffix) + 1, Len(s)) = suffix

Name_a == <<97>>
Name_b == <<98>>
Name_notes_txt == <<110, 111, 116, 101, 115, 46, 116, 120, 116>>
Name_plan == <<112, 108, 97, 110>>
Ext_docx == <<46, 100, 111, 99, 120>>
Ext_zip == <<46, 122, 105, 112>>

\* PROJECT_NAME of the run: "PRJ"
project_name == <<80, 82, 74>>

-----------------------------------------------------------------------------
(* Mime types *)

MimeFolder == "application/vnd.google-apps.folder"
MimeDocument == "application/vnd.google-apps.document"
MimeSpreadsheet == "application/vnd.google-apps.spreadsheet"
MimeDrawing == "application/vnd.google-apps.drawing"
MimePresentation == "application/vnd.google-apps.presentation"
MimeForm == "application/vnd.google-apps.form"
MimePlain == "text/plain"
MimePdf == "application/pdf"

\* The if/elif chain of download_gdoc_from_drive: the export target
NewMimeType(mime_type) ==
    IF mime_type = MimeDocument
    THEN "application/vnd.openxmlformats-officedocument.wordprocessingml.document"
    ELSE IF mime_type = MimeSpreadsheet
    THEN "application/vnd.openxmlformats-officedocument.spreadsheetml.sheet"
    ELSE IF mime_type = MimeDrawing
    THEN "image/jpeg"
    ELSE IF mime_type = MimePresentation
    THEN "application/vnd.openxmlformats-officedocument.presentationml.presentation"
    ELSE ""

RouteAnyNative(mime_type) ==
    mime_type \in {MimeDocument, MimeDrawing, MimePresentation,
                   MimeSpreadsheet, MimeForm}

\* The second operand of the elif of download_folder_from_drive
IsGdoc(mime_type) ==
    \/ mime_type = MimeDocument
    \/ mime_type = MimeDrawing
    \/ mime_type = MimePresentation
    \/ mime_type = MimeSpreadsheet

GdocPathWithExtension(location, filename) ==
    Append(location, filename \o Ext_docx)

\* lines 166/130: the local file name of a download is the entry's name
GdocPath(location, filename) == Append(location, filename)

-----------------------------------------------------------------------------
(* The local file system: os.path, os.makedirs, io.FileIO, os.remove, shutil *)

DirNode == [kind |-> "dir", src |-> 0, export |-> "", written |-> 0]

\* a file being written from remote entry src (export: the export mime type,
\* "" for a direct download), with the chunks written so far
FileNode(src, export, written) ==
    [kind |-> "file", src |-> src, export |-> export, written |-> written]

\* a local file that no download wrote (an archive, a file of the user)
PlainFile == FileNode(0, "", 0)

EmptyFs == [p \in {} |-> DirNode]

Front(p) == SubSeq(p, 1, Len(p) - 1)

IsPrefix(p, q) == Len(p) <= Len(q) /\ SubSeq(q, 1, Len(p)) = p

\* os.path.exists
Exists(f, p) == p = <<>> \/ p \in DOMAIN f

\* os.path.isfile
IsFile(f, p) == p \in DOMAIN f /\ f[p].kind = "file"

IsDir(f, p) == p = <<>> \/ (p \in DOMAIN f /\ f[p].kind = "dir")

\* os.makedirs(p) raises when a component of p is a regular file
MakedirsRaises(f, p) == \E k \in 1..Len(p) : IsFile(f, SubSeq(p, 1, k))

\* os.makedirs(p): p and every missing ancestor become directories
Makedirs(f, p) ==
    [q \in DOMAIN f \cup {SubSeq(p, 1, k) : k \in 1..Len(p)} |->
        IF q \in DOMAIN f THEN f[q] ELSE DirNode]

\* io.FileIO(p, 'wb') raises when p is a directory or its parent is none
OpenRaises(f, p) == IsDir(f, p) \/ ~IsDir(f, Front(p))

\* io.FileIO(p, 'wb') / open(p, 'wb'): creates or truncates p
OpenWb(f, p, node) ==
    [q \in DOMAIN f \cup {p} |-> IF q = p THEN node ELSE f[q]]

\* os.remove(p)
Remove(f, p) == [q \in DOMAIN f \ {p} |-> f[q]]

KeepPartialFile(f, p) == f

\* the except clause of the chunk loop: fh.close(); os.remove(location + filename)
AfterFailedChunk(f, p) == Remove(f, p)

\* shutil.rmtree(p)
Rmtree(f, p) == [q \in {r \in DOMAIN f : ~IsPrefix(p, r)} |-> f[q]]

-----------------------------------------------------------------------------
(* The Drive doc folder tree and its listing *)

\* id of the doc folder (GOOGLE_DRIVE_DOC_FOLDER_ID)
DocFolder == 0

Entry(id, name, mimeType, parent, chunks) ==
    [id |-> id, name |-> name, mimeType |-> mimeType, parent |-> parent,
     chunks |-> chunks]

\* A tree is a set of entries written out, and a number of bulk files:
\* plain files of one chunk, children of the doc folder, of distinct
\* one-character names that descend as the ids ascend.
Tree(explicit, bulk) == [explicit |-> explicit, bulk |-> bulk]

BulkEntry(i) == Entry(100 + i, <<5000 - i>>, MimePlain, DocFolder, 1)

Entries(tree) == tree.explicit \cup {BulkEntry(i) : i \in 1..tree.bulk}

EntryOf(id) ==
    IF id > 100
    THEN BulkEntry(id - 100)
    ELSE CHOOSE e \in remote.explicit : e.id = id

\* q = "'<folder_id>' in parents"
Children(tree, folder_id) == {e \in Entries(tree) : e.parent = folder_id}

\* the ids of a sequence of entries
Ids(s) == Materialize([i \in 1..Len(s) |-> s[i].id], Len(s))

\* The orders in which the store may return a set of entries: any order for
\* a short listing, by id ascending or descending for a long one.
Reverse(s) == Materialize([i \in 1..Len(s) |-> s[Len(s) + 1 - i]], Len(s))

NoEntry == Entry(0, <<>>, "", 0, 0)

IsEntry(e) == e # NoEntry

MaxId(S) == CHOOSE m \in {e.id : e \in S} : \A e \in S : e.id <= m

ByIdAscending(S) ==
    LET slots == Materialize(
                   [k \in 1..MaxId(S) |->
                      IF \E e \in S : e.id = k
                      THEN CHOOSE e \in S : e.id = k
                      ELSE NoEntry], MaxId(S))
    IN  SelectSeq(slots, IsEntry)

ListingOrders(S) ==
    LET n == Cardinality(S)
    IN  IF n <= MaxPerm
        THEN {s \in [1..n -> S] : \A i, j \in 1..n : i # j => s[i] # s[j]}
        ELSE {ByIdAscending(S), Reverse(ByIdAscending(S))}

\* files().list(pageSize=...).execute()['files']: the first page only
FirstPage(order, pageSize) == SubSeq(order, 1, Min(Len(order), pageSize))

UnsortedResult(s) == s

\* sorted(result, key=lambda k: k['name']): stable, ascending by name.
\* rank[i] is the place of s[i] in the result: one more than the number of
\* items that sort before it (a smaller name, or the same name and earlier).
SortedByName(s) ==
    LET n == Len(s)
        rank == Materialize(
                  [i \in 1..n |->
                     1 + Cardinality({j \in 1..n :
                           \/ StrLess(s[j].name, s[i].name)
                           \/ s[j].name = s[i].name /\ j < i})], n)
        place == Materialize(
                   [r \in 1..n |-> CHOOSE i \in 1..n : rank[i] = r], n)
    IN  Materialize([r \in 1..n |-> s[place[r]]], n)

-----------------------------------------------------------------------------
(* Remote trees the passes are run on *)

GenNames == {Name_a, Name_b}
GenMimes == {MimeFolder, MimeDocument, MimePlain, MimeForm}

\* every tree of at most MaxEntries entries with those names and types;
\* the parent of an entry is the doc folder or an earlier sub-folder
GenTrees ==
    UNION {
      { Tree({Entry(i, nm[i], mt[i], pr[i], NChunks) : i \in 1..k}, 0) :
          <<nm, mt, pr>> \in
            {t \in [1..k -> GenNames] \X [1..k -> GenMimes] \X [1..k -> 0..k] :
               \A i \in 1..k :
                  /\ t[3][i] < i
                  /\ t[3][i] # 0 => t[2][t[3][i]] = MimeFolder} }
      : k \in 0..MaxEntries }

\* the end-to-end scenario: a plain file "notes.txt", a document "plan"
ScenarioTree ==
    Tree({ Entry(1, Name_notes_txt, MimePlain, DocFolder, 1),
           Entry(2, Name_plan, MimeDocument, DocFolder, 1) }, 0)

\* one entry of every type, one level of nesting
AllKindsTree ==
    Tree({ Entry(1, <<100>>, MimeFolder, DocFolder, 1),
           Entry(2, <<101>>, MimeSpreadsheet, 1, 1),
           Entry(3, <<102>>, MimeDrawing, 1, 1),
           Entry(4, <<103>>, MimePresentation, 1, 1),
           Entry(5, <<104>>, MimeForm, 1, 1),
           Entry(6, <<105>>, MimeDocument, DocFolder, 1),
           Entry(7, <<106>>, MimePdf, DocFolder, 1) }, 0)

\* a doc folder of PageSize + 1 children, one more than a listing page
\* holds: a sub-folder with a document in it, two plain files of one name,
\* and bulk files
BigTree ==
    Tree({ Entry(1, <<100>>, MimeFolder, DocFolder, 1),
           Entry(2, <<101>>, MimePlain, DocFolder, 1),
           Entry(3, <<101>>, MimePlain, DocFolder, 1),
           Entry(4, <<102>>, MimeDocument, 1, 1) }, PageSize - 2)

\* a doc folder with nothing in it
EmptyTree == Tree({}, 0)

\* a regular file and a sub-folder of one name, the sub-folder not empty
ClashTree ==
    Tree({ Entry(1, Name_a, MimePlain, DocFolder, 1),
           Entry(2, Name_a, MimeFolder, DocFolder, 1),
           Entry(3, Name_b, MimeFolder, 2, 1) }, 0)

-----------------------------------------------------------------------------
(* download_folder_from_drive and the two chunked downloads *)

NoDownload == [active |-> FALSE, path |-> <<>>, total |-> 0, written |-> 0]

NoVisit == [id |-> 0, mimeType |-> "", existed |-> FALSE, action |-> "none"]

\* the activation record of a call download_folder_from_drive(folder_id,
\* location, folder_name, service) that has not run its first line yet
Call(folder_id, location, folder_name) ==
    [folder_id |-> folder_id, location |-> location,
     folder_name |-> folder_name, files |-> <<>>, result |-> <<>>,
     current |-> 0, at |-> "entry"]

Top == stack[Len(stack)]

SetTop(frame) == [stack EXCEPT ![Len(stack)] = frame]

InLoop ==
    /\ pc = "sync"
    /\ stack # <<>>
    /\ Top.at = "loop"
    /\ ~dl.active

HasItem == InLoop /\ Top.current <= Len(Top.result)

Item == EntryOf(Top.result[Top.current])

\* location + filename
ItemPath == Append(Top.location, Item.name)

\* line 294: the driver calls the synchronizer on the doc folder
StartSync ==
    /\ pc = "sync"
    /\ stack = <<>>
    /\ stack' = <<Call(DocFolder, <<>>, project_name)>>
    /\ UNCHANGED driverVars
    /\ UNCHANGED <<pc, exitStatus, failedAt, remote, fs, dl, run, mode, tree1,
                   downloads, requests, lastVisit, visited>>

\* lines 192-205: create the directory, list the folder, sort the listing
EnterFolder ==
    /\ pc = "sync"
    /\ stack # <<>>
    /\ Top.at = "entry"
    /\ LET target == Append(Top.location, Top.folder_name)
       IN  /\ Exists(fs, target) \/ ~MakedirsRaises(fs, target)
           /\ fs' = IF Exists(fs, target) THEN fs ELSE Makedirs(fs, target)
           /\ \E order \in ListingOrders(Children(remote, Top.folder_id)) :
                 stack' = SetTop([Top EXCEPT
                     !.location = target,
                     !.files = Ids(FirstPage(order, PageSize)),
                     !.result = Ids(SortedByName(FirstPage(order, PageSize))),
                     !.current = 1,
                     !.at = "loop"])
    /\ UNCHANGED driverVars
    /\ UNCHANGED <<pc, exitStatus, failedAt, remote, dl, run, mode, tree1,
                   downloads, requests, lastVisit, visited>>

\* line 193: os.makedirs raises, nothing catches it
EnterFolderRaises ==
    /\ pc = "sync"
    /\ stack # <<>>
    /\ Top.at = "entry"
    /\ LET target == Append(Top.location, Top.folder_name)
       IN  ~Exists(fs, target) /\ MakedirsRaises(fs, target)
    /\ pc' = "crashed"
    /\ exitStatus' = 1
    /\ failedAt' = "sync"
    /\ UNCHANGED driverVars
    /\ UNCHANGED <<remote, fs, stack, dl, run, mode, tree1,
                   downloads, requests, lastVisit, visited>>

\* lines 211-212: a sub-folder, recurse
VisitFolder ==
    /\ HasItem
    /\ Item.mimeType = MimeFolder
    /\ stack' = Append(stack, Call(Item.id, Top.location, Item.name))
    /\ lastVisit' = [id |-> Item.id, mimeType |-> Item.mimeType,
                     existed |-> IsFile(fs, ItemPath), action |-> "recurse"]
    /\ visited' = Append(visited, Item.id)
    /\ UNCHANGED driverVars
    /\ UNCHANGED <<pc, exitStatus, failedAt, remote, fs, dl, run, mode, tree1,
                   downloads, requests>>

\* lines 213-218 and 154-168: export download, up to the chunk loop
VisitGdoc ==
    /\ HasItem
    /\ Item.mimeType # MimeFolder
    /\ ~IsFile(fs, ItemPath) /\ IsGdoc(Item.mimeType)
    /\ LET target == NewMimeType(Item.mimeType)
       IN  /\ requests' = requests \cup
                 {[fileId |-> Item.id, mimeType |-> target]}
           /\ IF OpenRaises(fs, GdocPath(Top.location, Item.name))
              THEN /\ pc' = "crashed"
                   /\ exitStatus' = 1
                   /\ failedAt' = "sync"
                   /\ UNCHANGED <<fs, dl>>
              ELSE /\ fs' = OpenWb(fs, GdocPath(Top.location, Item.name),
                                   FileNode(Item.id, target, 0))
                   /\ dl' = [active |-> TRUE,
                             path |-> GdocPath(Top.location, Item.name),
                             total |-> Item.chunks, written |-> 0]
                   /\ UNCHANGED <<pc, exitStatus, failedAt>>
    /\ downloads' = downloads + 1
    /\ lastVisit' = [id |-> Item.id, mimeType |-> Item.mimeType,
                     existed |-> FALSE, action |-> "export"]
    /\ visited' = Append(visited, Item.id)
    /\ UNCHANGED driverVars
    /\ UNCHANGED <<remote, stack, run, mode, tree1>>

\* lines 219-220 and 129-132: direct download, up to the chunk loop
VisitFile ==
    /\ HasItem
    /\ Item.mimeType # MimeFolder
    /\ ~(~IsFile(fs, ItemPath) /\ IsGdoc(Item.mimeType))
    /\ ~IsFile(fs, ItemPath)
    /\ IF OpenRaises(fs, ItemPath)
       THEN /\ pc' = "crashed"
            /\ exitStatus' = 1
            /\ failedAt' = "sync"
            /\ UNCHANGED <<fs, dl>>
       ELSE /\ fs' = OpenWb(fs, ItemPath, FileNode(Item.id, "", 0))
            /\ dl' = [active |-> TRUE, path |-> ItemPath,
                      total |-> Item.chunks, written |-> 0]
            /\ UNCHANGED <<pc, exitStatus, failedAt>>
    /\ downloads' = downloads + 1
    /\ lastVisit' = [id |-> Item.id, mimeType |-> Item.mimeType,
                     existed |-> FALSE, action |-> "direct"]
    /\ visited' = Append(visited, Item.id)
    /\ UNCHANGED driverVars
    /\ UNCHANGED <<remote, stack, run, mode, tree1, requests>>

\* lines 213, 219, 221: a local file of that name exists, nothing is done
VisitSkip ==
    /\ HasItem
    /\ Item.mimeType # MimeFolder
    /\ IsFile(fs, ItemPath)
    /\ stack' = SetTop([Top EXCEPT !.current = @ + 1])
    /\ lastVisit' = [id |-> Item.id, mimeType |-> Item.mimeType,
                     existed |-> TRUE, action |-> "skip"]
    /\ visited' = Append(visited, Item.id)
    /\ UNCHANGED driverVars
    /\ UNCHANGED <<pc, exitStatus, failedAt, remote, fs, dl, run, mode, tree1,
                   downloads, requests>>

\* lines 133-142 / 169-178: next_chunk() returns; after the last chunk the
\* download returns and the loop of the synchronizer moves on (line 221)
NextChunk ==
    /\ pc = "sync"
    /\ dl.active
    /\ fs' = [fs EXCEPT ![dl.path].written = @ + 1]
    /\ IF dl.written + 1 >= dl.total
       THEN /\ dl' = [dl EXCEPT !.written = @ + 1, !.active = FALSE]
            /\ stack' = SetTop([Top EXCEPT !.current = @ + 1])
       ELSE /\ dl' = [dl EXCEPT !.written = @ + 1]
            /\ UNCHANGED stack
    /\ UNCHANGED driverVars
    /\ UNCHANGED <<pc, exitStatus, failedAt, remote, run, mode, tree1,
                   downloads, requests, lastVisit, visited>>

\* lines 136-139 / 172-175: next_chunk() raises
ChunkFails ==
    /\ pc = "sync"
    /\ dl.active
    /\ fs' = AfterFailedChunk(fs, dl.path)
    /\ dl' = [dl EXCEPT !.active = FALSE]
    /\ pc' = "exited"
    /\ exitStatus' = 1
    /\ failedAt' = "chunk"
    /\ UNCHANGED driverVars
    /\ UNCHANGED <<remote, stack, run, mode, tree1,
                   downloads, requests, lastVisit, visited>>

\* the loop of lines 206-221 is over: return to the caller
ReturnFolder ==
    /\ InLoop
    /\ Top.current > Len(Top.result)
    /\ IF Len(stack) = 1
       THEN /\ stack' = <<>>
            /\ pc' = "zip"
       ELSE /\ stack' = [Front(stack) EXCEPT ![Len(stack) - 1].current = @ + 1]
            /\ UNCHANGED pc
    /\ UNCHANGED driverVars
    /\ UNCHANGED <<exitStatus, failedAt, remote, fs, dl, run, mode, tree1,
                   downloads, requests, lastVisit, visited>>

\* the synchronizer is run once more on the tree the first pass left
RerunResume ==
    /\ pc = "zip"
    /\ run = 1
    /\ run' = 2
    /\ mode' = "resume"
    /\ tree1' = fs
    /\ pc' = "sync"
    /\ downloads' = 0
    /\ visited' = <<>>
    /\ lastVisit' = NoVisit
    /\ UNCHANGED driverVars
    /\ UNCHANGED <<exitStatus, failedAt, remote, fs, stack, dl, requests>>

\* the synchronizer is run once more, on an empty local target
RerunFresh ==
    /\ pc = "zip"
    /\ run = 1
    /\ run' = 2
    /\ mode' = "fresh"
    /\ tree1' = fs
    /\ fs' = EmptyFs
    /\ pc' = "sync"
    /\ downloads' = 0
    /\ visited' = <<>>
    /\ lastVisit' = NoVisit
    /\ UNCHANGED driverVars
    /\ UNCHANGED <<exitStatus, failedAt, remote, stack, dl, requests>>

\* creds = None
NoCreds == [none |-> TRUE, expired |-> FALSE, refresh_token |-> FALSE]

\* a credentials object: its access token has expired or not, it carries a
\* refresh token or not
Credentials(expired, refresh_token) ==
    [none |-> FALSE, expired |-> expired, refresh_token |-> refresh_token]

\* line 54: creds and creds.valid
Valid(c) == ~c.none /\ ~c.expired

\* line 55: creds and creds.expired and creds.refresh_token
Refreshable(c) == ~c.none /\ c.expired /\ c.refresh_token

NoS3 == [outcome |-> "none", returned |-> "none"]

\* the state of a driver that is about to call the synchronizer, with no
\* repository to archive
DriverAtSync ==
    /\ failedAt = ""
    /\ creds = NoCreds
    /\ repos = <<>>
    /\ idx = 1
    /\ path = <<>>
    /\ code = [old |-> 0, new |-> <<>>]
    /\ now = 0
    /\ log = <<>>
    /\ s3 = NoS3
    /\ bucket = {}
    /\ todo = {}
    /\ fs0 = EmptyFs

InitPass(trees) ==
    /\ DriverAtSync
    /\ pc = "sync"
    /\ exitStatus = -1
    /\ remote \in trees
    /\ fs = EmptyFs
    /\ stack = <<>>
    /\ dl = NoDownload
    /\ run = 1
    /\ mode = "first"
    /\ tree1 = EmptyFs
    /\ downloads = 0
    /\ requests = {}
    /\ lastVisit = NoVisit
    /\ visited = <<>>

NextPass ==
    \/ StartSync
    \/ EnterFolder
    \/ EnterFolderRaises
    \/ VisitFolder
    \/ VisitGdoc
    \/ VisitFile
    \/ VisitSkip
    \/ NextChunk
    \/ ChunkFails
    \/ ReturnFolder

\* synchronization passes over small trees, every listing order
InitSync == InitPass(GenTrees \cup {ScenarioTree, AllKindsTree})

NextSync == NextPass \/ RerunResume \/ RerunFresh

SpecSync == InitSync /\ [][NextSync]_vars

\* one synchronization pass over a folder larger than a listing page
InitPaging == InitPass({BigTree, ClashTree})

SpecPaging == InitPaging /\ [][NextPass]_vars

-----------------------------------------------------------------------------
(* The pipeline driver (lines 271-303) and the functions it calls *)

\* the clock may advance between two readings of datetime.datetime.now()
Later == now..Min(now + 1, MaxTick)

\* where the driver goes after clear_folder and after each upload
LoopOrSync(i) == IF i <= Len(repos) THEN "repos" ELSE "sync"

Name_token_pickle ==
    <<116, 111, 107, 101, 110, 46, 112, 105, 99, 107, 108, 101>>
Name_credentials_json ==
    <<99, 114, 101, 100, 101, 110, 116, 105, 97, 108, 115, 46, 106, 115, 111, 110>>

\* line 283, lines 35-66: load the cached credentials; when there are none
\* or they are not valid, refresh them or run the authorization flow, which
\* reads credentials.json, and save the result in token.pickle
GetDriveService ==
    /\ pc = "connect"
    /\ LET token == <<Name_token_pickle>>
           loaded == IF Exists(fs, token) THEN creds ELSE NoCreds
           dies == \/ IsDir(fs, token)
                   \/ /\ ~Valid(loaded)
                      /\ ~Refreshable(loaded)
                      /\ ~IsFile(fs, <<Name_credentials_json>>)
       IN  IF dies
           THEN /\ pc' = "crashed"
                /\ exitStatus' = 1
                /\ failedAt' = "connect"
                /\ UNCHANGED <<fs, creds>>
           ELSE /\ IF Valid(loaded)
                   THEN UNCHANGED <<fs, creds>>
                   ELSE /\ creds' = IF Refreshable(loaded)
                                    THEN [loaded EXCEPT !.expired = FALSE]
                                    ELSE Credentials(FALSE, TRUE)
                        /\ fs' = OpenWb(fs, token, PlainFile)
                /\ pc' = "clear_folder"
                /\ UNCHANGED <<exitStatus, failedAt>>
    /\ UNCHANGED syncVars
    /\ UNCHANGED <<repos, idx, path, code, now, log, s3, bucket, todo, fs0>>

\* files().list(q=...) of clear_folder names no pageSize: one page of the
\* store's default size
ListedForDelete(old) == Min(old, DefaultPageSize)

\* line 286, lines 69-86: delete the entries the listing returned
ClearFolder ==
    /\ pc = "clear_folder"
    /\ code' = [code EXCEPT !.old = @ - ListedForDelete(@)]
    /\ pc' = LoopOrSync(idx)
    /\ UNCHANGED syncVars
    /\ UNCHANGED <<exitStatus, failedAt, fs, creds, repos, idx, path, now, log,
                   s3, bucket, todo, fs0>>

RepoFromEnd(rs, i) == rs[Len(rs) + 1 - i]

\* for repo in repos: the descriptor of the i-th iteration
RepoAt(rs, i) == rs[i]

\* filename + '.zip', the name of the archive and the value returned
ZipName(filename) == filename \o Ext_zip

\* line 290, lines 20-32: clone the repository and archive it
CreateZip ==
    /\ pc = "repos"
    /\ idx <= Len(repos)
    /\ LET zip == ZipName(RepoAt(repos, idx).name)
       IN  IF OpenRaises(fs, <<zip>>)
           THEN /\ pc' = "crashed"
                /\ exitStatus' = 1
                /\ failedAt' = "archive"
                /\ UNCHANGED <<fs, path, log>>
           ELSE /\ fs' = OpenWb(fs, <<zip>>, PlainFile)
                /\ path' = zip
                /\ log' = Append(log, [op |-> "archive", index |-> idx,
                                       file |-> zip, local |-> TRUE])
                /\ pc' = "upload"
                /\ UNCHANGED <<exitStatus, failedAt>>
    /\ UNCHANGED syncVars
    /\ UNCHANGED <<creds, repos, idx, code, now, s3, bucket, todo, fs0>>

\* line 291, lines 89-117: upload the archive to the code folder
UploadToDrive ==
    /\ pc = "upload"
    /\ \E t \in Later :
          /\ now' = t
          /\ code' = [code EXCEPT !.new = Append(@,
                [prefix |-> "code_v", date |-> t,
                 name |-> RepoAt(repos, idx).name, ext |-> ".zip",
                 media |-> path])]
    /\ log' = Append(log, [op |-> "upload", index |-> idx, file |-> path,
                           local |-> IsFile(fs, <<path>>)])
    /\ idx' = idx + 1
    /\ pc' = LoopOrSync(idx + 1)
    /\ UNCHANGED syncVars
    /\ UNCHANGED <<exitStatus, failedAt, fs, creds, repos, path, s3, bucket,
                   todo, fs0>>

\* line 295, lines 224-231: shutil.make_archive(project_name, 'zip',
\* project_name) raises when the folder to archive is not a directory
\* (missing, or a regular file) and when <project_name>.zip cannot be
\* opened for writing; it leaves the working directory as it was then
ZipFolder ==
    /\ pc = "zip"
    /\ IF \/ ~IsDir(fs, <<project_name>>)
          \/ OpenRaises(fs, <<ZipName(project_name)>>)
       THEN /\ pc' = "crashed"
            /\ exitStatus' = 1
            /\ failedAt' = "zip"
            /\ UNCHANGED fs
       ELSE /\ fs' = OpenWb(fs, <<ZipName(project_name)>>, PlainFile)
            /\ pc' = "s3"
            /\ UNCHANGED <<exitStatus, failedAt>>
    /\ UNCHANGED syncVars
    /\ UNCHANGED driverVars

\* what s3.upload_file may do
S3Outcomes == {"ok", "FileNotFoundError", "NoCredentialsError", "ClientError"}

OnlyMissingFileCaught(outcome) ==
    IF outcome = "ok" THEN "True"
    ELSE IF outcome = "FileNotFoundError" THEN "False"
    ELSE "raise"

\* lines 246-255: the try statement of upload_file_to_s3
S3Result(outcome) ==
    IF outcome = "ok" THEN "True"
    ELSE IF outcome = "FileNotFoundError" THEN "False"
    ELSE IF outcome = "NoCredentialsError" THEN "False"
    ELSE "raise"

\* lines 297-302, lines 234-255: upload the zip to the bucket; the driver
\* drops the value returned
UploadToS3 ==
    /\ pc = "s3"
    /\ \E outcome \in S3Outcomes, t \in Later :
          /\ now' = t
          /\ bucket' = IF outcome = "ok"
                       THEN bucket \cup {[prefix |-> "doc_v", date |-> t,
                                          name |-> project_name, ext |-> ".zip"]}
                       ELSE bucket
          /\ s3' = [outcome |-> outcome, returned |-> S3Result(outcome)]
          /\ IF S3Result(outcome) = "raise"
             THEN /\ pc' = "crashed"
                  /\ exitStatus' = 1
                  /\ failedAt' = "s3"
             ELSE /\ pc' = "cleanup"
                  /\ UNCHANGED <<exitStatus, failedAt>>
    /\ UNCHANGED syncVars
    /\ UNCHANGED <<fs, creds, repos, idx, path, code, log, todo, fs0>>

\* line 264: os.listdir(".")
ListDir ==
    /\ pc = "cleanup"
    /\ todo' = {p[1] : p \in {q \in DOMAIN fs : Len(q) = 1}}
    /\ fs0' = fs
    /\ pc' = "cleaning"
    /\ UNCHANGED syncVars
    /\ UNCHANGED <<exitStatus, failedAt, fs, creds, repos, idx, path, code, now,
                   log, s3, bucket>>

\* lines 265-268: one iteration of the loop, in the order os.listdir chose
CleanEntry ==
    /\ pc = "cleaning"
    /\ \E file \in todo :
          /\ todo' = todo \ {file}
          /\ IF EndsWith(file, Ext_zip)
             THEN IF IsDir(fs, <<file>>)
                  THEN /\ pc' = "crashed"
                       /\ exitStatus' = 1
                       /\ failedAt' = "cleaning"
                       /\ UNCHANGED fs
                  ELSE /\ fs' = Remove(fs, <<file>>)
                       /\ UNCHANGED <<pc, exitStatus, failedAt>>
             ELSE IF EndsWith(file, project_name)
             THEN IF ~IsDir(fs, <<file>>)
                  THEN /\ pc' = "crashed"
                       /\ exitStatus' = 1
                       /\ failedAt' = "cleaning"
                       /\ UNCHANGED fs
                  ELSE /\ fs' = Rmtree(fs, <<file>>)
                       /\ UNCHANGED <<pc, exitStatus, failedAt>>
             ELSE UNCHANGED <<fs, pc, exitStatus, failedAt>>
    /\ UNCHANGED syncVars
    /\ UNCHANGED <<creds, repos, idx, path, code, now, log, s3, bucket, fs0>>

\* the loop is over, clear_local_folder returns and the script ends
Finish ==
    /\ pc = "cleaning"
    /\ todo = {}
    /\ pc' = "done"
    /\ exitStatus' = 0
    /\ UNCHANGED syncVars
    /\ UNCHANGED <<failedAt, fs, driverVars>>

-----------------------------------------------------------------------------
(* Runs of the whole pipeline *)

Descriptor(name) == [url |-> "https://x/repo.git", name |-> name,
                     branch |-> "master"]

\* repos.json: at most MaxRepos descriptors named "a" or "b"
RepoLists ==
    UNION { [1..k -> {Descriptor(Name_a), Descriptor(Name_b)}] : k \in 0..MaxRepos }

\* the code folder holds nothing, one entry, a full listing page of entries
\* or one more than that before the run
OldCounts == {0, 1, DefaultPageSize, DefaultPageSize + 1}

Name_main_py == <<109, 97, 105, 110, 46, 112, 121>>
Name_repos_json == <<114, 101, 112, 111, 115, 46, 106, 115, 111, 110>>
Name_stale_zip == <<115, 116, 97, 108, 101, 46, 122, 105, 112>>

\* the working directory of a run and the credentials its token.pickle
\* holds: the script and repos.json with the client secrets for a first
\* authorization; with a valid cached token and the archive an aborted run
\* left; with an expired token and the project directory an aborted run
\* left; with neither token nor client secrets; and with a token that
\* cannot be refreshed, the client secrets and a regular file named like
\* the project
StartStates ==
    LET own == [p \in {<<Name_main_py>>, <<Name_repos_json>>} |-> PlainFile]
        secrets(d) == OpenWb(d, <<Name_credentials_json>>, PlainFile)
        cached(d) == OpenWb(d, <<Name_token_pickle>>, PlainFile)
    IN  { [fs |-> secrets(own), creds |-> NoCreds],
          [fs |-> cached(OpenWb(own, <<Name_stale_zip>>, PlainFile)),
           creds |-> Credentials(FALSE, TRUE)],
          [fs |-> cached(OpenWb(Makedirs(own, <<project_name>>),
                                <<project_name, Name_notes_txt>>, PlainFile)),
           creds |-> Credentials(TRUE, TRUE)],
          [fs |-> own, creds |-> NoCreds],
          [fs |-> cached(secrets(OpenWb(own, <<project_name>>, PlainFile))),
           creds |-> Credentials(TRUE, FALSE)] }

InitMain ==
    /\ pc = "connect"
    /\ exitStatus = -1
    /\ failedAt = ""
    /\ repos \in RepoLists
    /\ idx = 1
    /\ path = <<>>
    /\ code \in {[old |-> n, new |-> <<>>] : n \in OldCounts}
    /\ now = 0
    /\ log = <<>>
    /\ s3 = NoS3
    /\ bucket = {}
    /\ todo = {}
    /\ fs0 = EmptyFs
    /\ \E start \in StartStates : fs = start.fs /\ creds = start.creds
    /\ remote \in {EmptyTree, ScenarioTree, ClashTree}
    /\ stack = <<>>
    /\ dl = NoDownload
    /\ run = 1
    /\ mode = "first"
    /\ tree1 = EmptyFs
    /\ downloads = 0
    /\ requests = {}
    /\ lastVisit = NoVisit
    /\ visited = <<>>

NextMain ==
    \/ GetDriveService
    \/ ClearFolder
    \/ CreateZip
    \/ UploadToDrive
    \/ NextPass
    \/ ZipFolder
    \/ UploadToS3
    \/ ListDir
    \/ CleanEntry
    \/ Finish

SpecMain == InitMain /\ [][NextMain]_vars

\* clear_local_folder on working directories of every content
Name_oldPRJ == <<111, 108, 100>> \o project_name
Name_myPRJ == <<109, 121>> \o project_name
Name_docs == <<100, 111, 99, 115>>
Name_d_zip == <<100>> \o Ext_zip

\* entries a working directory may hold: the project directory with a file
\* in it and its archive, an archive, a directory named like an archive, a
\* directory and a file whose names end with the project name, a file and a
\* directory with a file named like the project in it
DirEntries ==
    { ([p \in {<<project_name>>} |-> DirNode]
         @@ [p \in {<<project_name, Name_a>>} |-> FileNode(1, "", 1)]),
      [p \in {<<ZipName(project_name)>>} |-> PlainFile],
      [p \in {<<Name_stale_zip>>} |-> PlainFile],
      [p \in {<<Name_d_zip>>} |-> DirNode],
      [p \in {<<Name_oldPRJ>>} |-> DirNode],
      [p \in {<<Name_myPRJ>>} |-> PlainFile],
      [p \in {<<Name_main_py>>} |-> PlainFile],
      ([p \in {<<Name_docs>>} |-> DirNode]
         @@ [p \in {<<Name_docs, project_name>>} |-> PlainFile]) }

RECURSIVE Merge(_)
Merge(S) ==
    IF S = {} THEN EmptyFs
    ELSE LET f == CHOOSE g \in S : TRUE IN f @@ Merge(S \ {f})

InitCleanup ==
    /\ DriverAtSync
    /\ pc = "cleanup"
    /\ exitStatus = -1
    /\ fs \in {Merge(S) : S \in SUBSET DirEntries}
    /\ remote = EmptyTree
    /\ stack = <<>>
    /\ dl = NoDownload
    /\ run = 1
    /\ mode = "first"
    /\ tree1 = EmptyFs
    /\ downloads = 0
    /\ requests = {}
    /\ lastVisit = NoVisit
    /\ visited = <<>>

NextCleanup == ListDir \/ CleanEntry \/ Finish

SpecCleanup == InitCleanup /\ [][NextCleanup]_vars

-----------------------------------------------------------------------------
(* Properties of the synchronizer *)

PassCompleted == pc = "zip"

\* the local path that mirrors a remote entry
RECURSIVE MirrorPath(_)
MirrorPath(e) ==
    IF e.parent = DocFolder
    THEN <<project_name, e.name>>
    ELSE Append(MirrorPath(EntryOf(e.parent)), e.name)

Times(e) == Cardinality({i \in 1..Len(visited) : visited[i] = e.id})

\* a folder is reached when the loop body handled its entry
Reached(folder_id) ==
    \/ folder_id = DocFolder
    \/ \E i \in 1..Len(visited) : visited[i] = folder_id

\* C1: folder synchronization is idempotent on every remote tree: a second
\* pass from an empty local target leaves the same local tree as the first,
\* and a second pass on the tree the first left downloads nothing and
\* changes nothing.
C1_Idempotent ==
    (run = 2 /\ PassCompleted) =>
        /\ fs = tree1
        /\ mode = "resume" => downloads = 0

\* C2: once a chunked download has ended, the destination holds all the
\* chunks of its source or is absent; no local file holds part of them.
C2_CompleteOrAbsent ==
    ~dl.active =>
        \A p \in DOMAIN fs :
            (fs[p].kind = "file" /\ fs[p].src # 0)
                => fs[p].written = EntryOf(fs[p].src).chunks

\* a download failed after it wrote a chunk, and its destination is gone
C2_Witness ==
    /\ pc = "exited"
    /\ dl.written >= 1
    /\ dl.written < dl.total
    /\ ~Exists(fs, dl.path)

\* C5: after a pass that completes from an empty local target, every child
\* of every folder reached was handled exactly once, every sub-folder has a
\* local directory and every other entry a local file at the mirror path.
C5_MirrorsWholeTree ==
    (run = 1 /\ PassCompleted) =>
        \A e \in Entries(remote) :
            Reached(e.parent) =>
                /\ Times(e) = 1
                /\ IF e.mimeType = MimeFolder
                   THEN IsDir(fs, MirrorPath(e))
                   ELSE IsFile(fs, MirrorPath(e))

\* C7: siblings are handled in ascending order of name, whatever the order
\* of the listing: an entry handled before a sibling has a name <= its name.
C7_AscendingNames ==
    \A i, j \in 1..Len(visited) :
        (i < j /\ EntryOf(visited[i]).parent = EntryOf(visited[j]).parent)
            => ~StrLess(EntryOf(visited[j]).name, EntryOf(visited[i]).name)

\* a folder whose listing came back in descending order of name has had
\* two of its entries handled
C7_Witness ==
    /\ stack # <<>>
    /\ Top.at = "loop"
    /\ Len(Top.files) >= 2
    /\ StrLess(EntryOf(Top.files[2]).name, EntryOf(Top.files[1]).name)
    /\ Top.current > 2

\* the files directly in the project directory
FilesOfProject ==
    {p \in DOMAIN fs : Len(p) = 2 /\ p[1] = project_name /\ fs[p].kind = "file"}

\* the synchronizer has returned and cleanup has not started
Synchronized == pc \in {"zip", "s3", "cleanup"}

\* C8 as stated: in the end-to-end scenario the project directory holds,
\* after synchronization and before cleanup, exactly the files notes.txt
\* and plan.docx.
C8_PlanDocx ==
    (remote = ScenarioTree /\ Synchronized) =>
        FilesOfProject = { <<project_name, Name_notes_txt>>,
                           <<project_name, Name_plan \o Ext_docx>> }

\* C8 amended: the project directory holds exactly notes.txt and plan; the
\* document is stored under its remote name, with no extension added, and
\* holds the word-processor export.
C8_PlanUnderRemoteName ==
    (remote = ScenarioTree /\ Synchronized) =>
        /\ FilesOfProject = { <<project_name, Name_notes_txt>>,
                              <<project_name, Name_plan>> }
        /\ fs[<<project_name, Name_plan>>].export =
              "application/vnd.openxmlformats-officedocument.wordprocessingml.document"

\* the scenario of the specification: one descriptor "a", an empty code
\* folder, both entries downloaded, the driver about to clean up
C8_Witness ==
    /\ remote = ScenarioTree
    /\ pc = "cleanup"
    /\ Len(repos) = 1
    /\ repos[1].name = Name_a
    /\ Len(code.new) = 1
    /\ code.old = 0
    /\ downloads = 2

\* the native types the export mapping names
MappedNative ==
    {MimeDocument, MimeSpreadsheet, MimeDrawing, MimePresentation}

\* C10: the synchronizer calls the export download only for a document, a
\* spreadsheet, a drawing or a presentation, so no export request of a pass
\* carries the empty target type; a folder is recursed into, and an entry
\* of any other type is downloaded directly unless a local file of its name
\* exists.
C10_ExportOnlyMapped ==
    /\ \A r \in requests : r.mimeType # ""
    /\ lastVisit.action = "export" => lastVisit.mimeType \in MappedNative
    /\ lastVisit.action # "none" =>
          /\ lastVisit.mimeType = MimeFolder => lastVisit.action = "recurse"
          /\ lastVisit.mimeType \in MappedNative =>
                lastVisit.action = IF lastVisit.existed THEN "skip" ELSE "export"
          /\ lastVisit.mimeType \notin MappedNative \cup {MimeFolder} =>
                lastVisit.action = IF lastVisit.existed THEN "skip" ELSE "direct"

\* an unmapped native entry was downloaded directly in a pass that also
\* exported a mapped one
C10_Witness ==
    /\ lastVisit.mimeType = MimeForm
    /\ lastVisit.action = "direct"
    /\ requests # {}

-----------------------------------------------------------------------------
(* Properties of the driver *)

MustGo(name) == EndsWith(name, Ext_zip) \/ name = project_name

\* C3: cleanup ends without error, removes every entry of the working
\* directory whose name ends in .zip and the directory named after the
\* project, and leaves every other entry as it was.
C3_OnlyZipAndProject ==
    /\ failedAt # "cleaning"
    /\ pc = "done" =>
          \A p \in DOMAIN fs0 :
              IF MustGo(p[1])
              THEN p \notin DOMAIN fs
              ELSE p \in DOMAIN fs /\ fs[p] = fs0[p]

\* C4: after a fully successful run the code folder holds the entries
\* uploaded during the run, one per descriptor, and none from before it.
C4_ExactlyNewEntries ==
    pc = "done" =>
        /\ code.old = 0
        /\ Len(code.new) = Len(repos)

\* C6: the descriptors are handled in list order, one at a time, archive
\* then upload: the k-th event is the archive (k odd) or the upload (k even)
\* of descriptor (k+1)/2, and the archive <name>.zip an upload sends is on
\* disk when the upload starts.
C6_ArchiveBeforeUpload ==
    \A k \in 1..Len(log) :
        /\ log[k].op = IF k % 2 = 1 THEN "archive" ELSE "upload"
        /\ log[k].index = (k + 1) \div 2
        /\ log[k].file = repos[(k + 1) \div 2].name \o Ext_zip
        /\ log[k].local

\* two descriptors of different names have been archived and uploaded
C6_Witness ==
    /\ Len(log) = 4
    /\ repos[1].name # repos[2].name
    /\ Len(code.new) = 2

\* C9: when s3.upload_file fails with FileNotFoundError or
\* NoCredentialsError, upload_file_to_s3 returns False, the process does not
\* die there, cleanup runs and the run ends with exit status 0.
C9_S3FailureSwallowed ==
    s3.outcome \in {"FileNotFoundError", "NoCredentialsError"} =>
        /\ s3.returned = "False"
        /\ failedAt = ""
        /\ pc \in {"cleanup", "cleaning", "done"}
        /\ pc = "done" =>
              /\ exitStatus = 0
              /\ todo = {}
              /\ \A p \in DOMAIN fs : ~MustGo(p[1])

\* a run whose S3 upload met rejected credentials has ended with status 0,
\* and cleanup had something to remove
C9_Witness ==
    /\ s3.outcome = "NoCredentialsError"
    /\ pc = "done"
    /\ exitStatus = 0
    /\ <<ZipName(project_name)>> \in DOMAIN fs0

====
